---------------------------- MODULE Spec2Model ----------------------------
(***************************************************************************)
(* Model of cutekit/cmds.py: the command registry (Cmd, cmds, append),     *)
(* the dispatcher (exec) and the external dependency fetcher (grabExtern,  *)
(* installCmd).                                                            *)
(***************************************************************************)
EXTENDS Integers, Sequences, FiniteSets, TLC

(***************************************************************************)
(* Bounds of the model.                                                    *)
(***************************************************************************)
MaxAppends == 2
MaxDeps == 3
MaxPasses == 2
MaxDepth == 4

(***************************************************************************)
(* Python values.  None is a value different from every string.            *)
(***************************************************************************)
None == "<None>"

\* Unicode code points of the strings the model uses; Python compares
\* strings lexicographically by code point.
CodePoints ==
    [ s \in {"I", "a", "b", "c", "d", "g", "h", "i", "l", "n", "r", "t", "v",
             "run", "sync"} |->
        CASE s = "I" -> <<73>>  [] s = "a" -> <<97>>  [] s = "b" -> <<98>>
          [] s = "c" -> <<99>>  [] s = "d" -> <<100>> [] s = "g" -> <<103>>
          [] s = "h" -> <<104>> [] s = "i" -> <<105>> [] s = "l" -> <<108>>
          [] s = "n" -> <<110>> [] s = "r" -> <<114>> [] s = "t" -> <<116>>
          [] s = "v" -> <<118>>
          [] s = "run" -> <<114, 117, 110>>
          [] s = "sync" -> <<115, 121, 110, 99>> ]

RECURSIVE SeqLess(_, _)
SeqLess(a, b) ==
    IF b = <<>> THEN FALSE
    ELSE IF a = <<>> THEN TRUE
    ELSE IF Head(a) # Head(b) THEN Head(a) < Head(b)
    ELSE SeqLess(Tail(a), Tail(b))

\* str.__lt__
StrLess(s, t) == SeqLess(CodePoints[s], CodePoints[t])

StrLeq(s, t) == s = t \/ StrLess(s, t)

(***************************************************************************)
(* class Cmd.  uid stands for the identity of the Python object.           *)
(***************************************************************************)
Cmd(uid, shortName, longName, helpText, callback) ==
    [ uid |-> uid, shortName |-> shortName, longName |-> longName,
      helpText |-> helpText, callback |-> callback, isPlugin |-> FALSE ]

\* The module-level "cmds += [Cmd(...)]" statements, in file order.
Builtins ==
    << Cmd(1, "r", "run", "Run the target", "runCmd"),
       Cmd(2, "t", "test", "Run all test targets", "testCmd"),
       Cmd(3, "d", "debug", "Debug the target", "debugCmd"),
       Cmd(4, "b", "build", "Build the target", "buildCmd"),
       Cmd(5, "l", "list", "List the targets", "listCmd"),
       Cmd(6, "c", "clean", "Clean the build directory", "cleanCmd"),
       Cmd(7, "n", "nuke", "Clean the build directory and cache", "nukeCmd"),
       Cmd(8, "h", "help", "Show this help message", "helpCmd"),
       Cmd(9, "v", "version", "Show current version", "versionCmd"),
       Cmd(10, "g", "graph", "Show dependency graph", "graphCmd"),
       Cmd(11, "i", "install", "Install all the external packages", "installCmd"),
       Cmd(12, "I", "init", "Initialize a new project", "initCmd") >>

NumBuiltins == Len(Builtins)

\* Commands an extension may construct and hand to append.
PluginShortNames == {None, "a", "r"}
PluginLongNames == {"r", "run", "sync"}
PluginCallbacks == {"pluginCmd"}

\* Command tokens on the command line.
Tokens == {"a", "r", "run", "sync", "i", "zap"}

VARIABLES
    cmds,        \* the module-level list cmds
    nextUid,     \* identity of the next Cmd object constructed
    appended,    \* history: the commands passed to append, in call order
    execState,   \* "idle" | "returned" | "raised"
    execToken,   \* the token consumed by the last exec
    execCalled,  \* callbacks (with uid) invoked by the last exec
    execError    \* message of the RuntimeError raised by the last exec

regVars == <<cmds, nextUid, appended, execState, execToken, execCalled, execError>>

\* Dependency keys (names of directories under const.EXTERN_DIR); no key is
\* a path prefix of another.
Keys == {"A", "B", "C"}

ROOT == "."

VARIABLES
    extern,      \* pj.extern of the project in ".": keys in declared order
    project,     \* per key: what is known of the project.json its clone carries
    disk,        \* per key: state of the directory EXTERN_DIR/<key>
    stack,       \* active grabExtern calls, innermost last: the entries left to iterate
    passNo,      \* number of installCmd runs started
    raised,      \* an exception escaped the current installCmd
    out,         \* lines printed by the current pass
    clones,      \* git clone commands issued by the current pass, in order
    loaded,      \* keys whose project.json the current pass loaded
    diskAtStart, \* directories that existed when the current pass started
    prev         \* history: how the previous pass started and ended

fetchVars == <<extern, project, disk, stack, passNo, raised, out, clones, loaded,
               diskAtStart, prev>>

vars == <<regVars, fetchVars>>

(***************************************************************************)
(* list.sort(key=...): a stable sort.                                      *)
(***************************************************************************)
\* lambda c: c.shortName or c.longName
SortKey(c) == IF c.shortName # None /\ c.shortName # "" THEN c.shortName ELSE c.longName

RECURSIVE InsertStable(_, _)
InsertStable(sorted, c) ==
    IF sorted = <<>> THEN <<c>>
    ELSE IF StrLeq(SortKey(sorted[Len(sorted)]), SortKey(c)) THEN Append(sorted, c)
    ELSE Append(InsertStable(SubSeq(sorted, 1, Len(sorted) - 1), c), sorted[Len(sorted)])

RECURSIVE SortByKey(_)
SortByKey(l) ==
    IF l = <<>> THEN <<>>
    ELSE InsertStable(SortByKey(SubSeq(l, 1, Len(l) - 1)), l[Len(l)])


(***************************************************************************)
(* append(cmd)                                                             *)
(***************************************************************************)
MarkPluginSkipped(cmd) == cmd

\* cmd.isPlugin = True
MarkPlugin(cmd) == [cmd EXCEPT !.isPlugin = TRUE]

SamePair(c, d) == c.shortName = d.shortName /\ c.longName = d.longName

ListAppendUnlessPresent(l, cmd) ==
    IF \E i \in DOMAIN l : SamePair(l[i], cmd) THEN l ELSE Append(l, cmd)

\* cmds.append(cmd)
ListAppend(l, cmd) == Append(l, cmd)

\* The body of append: mark, push back, re-sort the whole list.
AppendResult(l, cmd) == SortByKey(ListAppend(l, MarkPlugin(cmd)))

(***************************************************************************)
(* exec(args)                                                              *)
(***************************************************************************)
MatchesLongOnly(c, cmd) == c.longName = cmd

\* c.shortName == cmd or c.longName == cmd
Matches(c, cmd) == c.shortName = cmd \/ c.longName = cmd

\* "for c in cmds: if ...: c.callback(args); return": the index of the
\* command whose callback runs, 0 when the loop falls through.
RECURSIVE ScanFrom(_, _, _)
ScanFrom(l, cmd, i) ==
    IF i > Len(l) THEN 0
    ELSE IF Matches(l[i], cmd) THEN i
    ELSE ScanFrom(l, cmd, i + 1)

Call(c) == [uid |-> c.uid, callback |-> c.callback]

InitRegistry ==
    /\ cmds = Builtins
    /\ nextUid = NumBuiltins + 1
    /\ appended = <<>>
    /\ execState = "idle"
    /\ execToken = None
    /\ execCalled = <<>>
    /\ execError = None

\* An extension constructs a Cmd (possibly presetting isPlugin) and calls
\* append.  The exec* variables describe the operation just performed.
DoAppend ==
    /\ Len(appended) < MaxAppends
    /\ \E shortName \in PluginShortNames, longName \in PluginLongNames,
          callback \in PluginCallbacks, preset \in BOOLEAN :
         LET cmd == [Cmd(nextUid, shortName, longName, "plugin", callback)
                        EXCEPT !.isPlugin = preset]
         IN  /\ cmds' = AppendResult(cmds, cmd)
             /\ appended' = Append(appended, cmd)
    /\ nextUid' = nextUid + 1
    /\ execState' = "idle"
    /\ execToken' = None
    /\ execCalled' = <<>>
    /\ execError' = None
    /\ UNCHANGED fetchVars

\* exec with an empty argument list: consumeArg returns None.
ExecNoArg ==
    /\ execState' = "raised"
    /\ execToken' = None
    /\ execCalled' = <<>>
    /\ execError' = "No command specified"
    /\ UNCHANGED <<cmds, nextUid, appended>>
    /\ UNCHANGED fetchVars

\* exec with a first positional token.
ExecToken ==
    \E cmd \in Tokens :
        LET i == ScanFrom(cmds, cmd, 1) IN
        /\ execToken' = cmd
        /\ IF i # 0
           THEN /\ execCalled' = <<Call(cmds[i])>>
                /\ execState' = "returned"
                /\ execError' = None
           ELSE /\ execCalled' = <<>>
                /\ execState' = "raised"
                /\ execError' = "Unknown command " \o cmd
        /\ UNCHANGED <<cmds, nextUid, appended>>
    /\ UNCHANGED fetchVars

NextReg == DoAppend \/ ExecNoArg \/ ExecToken


(***************************************************************************)
(* Properties of the registry and the dispatcher.                          *)
(***************************************************************************)
MatchSet(cmd) ==
    {i \in DOMAIN cmds : cmds[i].shortName = cmd \/ cmds[i].longName = cmd}

MinOf(S) == CHOOSE i \in S : \A j \in S : i <= j

\* C1: after exec of a token n, a handler was invoked iff n is the short or
\* long name of a registered command; then exactly one handler ran, the one
\* of the first matching command in registry order; otherwise no handler
\* ran and exec raised "Unknown command n".
C1_ExecDispatch ==
    (execState # "idle" /\ execToken # None) =>
        /\ (execCalled # <<>>) <=> (MatchSet(execToken) # {})
        /\ MatchSet(execToken) # {} =>
              /\ execCalled = <<Call(cmds[MinOf(MatchSet(execToken))])>>
              /\ execState = "returned"
              /\ execError = None
        /\ MatchSet(execToken) = {} =>
              /\ execCalled = <<>>
              /\ execState = "raised"
              /\ execError = "Unknown command " \o execToken

\* A plugin command sorted ahead of a built-in shadows it: the token "r"
\* reaches the plugin's handler although the built-in "run" also matches;
\* and an unknown token has been rejected in some other state.
C1_Witness ==
    /\ execState = "returned"
    /\ execToken = "r"
    /\ Cardinality(MatchSet("r")) >= 2
    /\ execCalled[1].uid > NumBuiltins

C1_WitnessUnknown ==
    /\ execState = "raised"
    /\ execToken = "zap"
    /\ Len(appended) = MaxAppends

\* C6: a registry entry is marked isPlugin exactly when it was passed to
\* append; every command passed to append is in the registry and marked;
\* every built-in is in the registry and unmarked.
C6_PluginFlag ==
    /\ \A i \in DOMAIN cmds :
          cmds[i].isPlugin <=> (\E j \in DOMAIN appended : appended[j].uid = cmds[i].uid)
    /\ \A j \in DOMAIN appended :
          \E i \in DOMAIN cmds : cmds[i].uid = appended[j].uid /\ cmds[i].isPlugin
    /\ \A b \in DOMAIN Builtins :
          \E i \in DOMAIN cmds : cmds[i].uid = Builtins[b].uid /\ ~cmds[i].isPlugin

\* A command constructed with isPlugin = False has been appended.
C6_Witness ==
    /\ Len(appended) = MaxAppends
    /\ \E j \in DOMAIN appended : ~appended[j].isPlugin

IsSortedByKey(l) ==
    \A i, j \in DOMAIN l : i < j => StrLeq(SortKey(l[i]), SortKey(l[j]))

\* C7: in every reachable registry state the registry is ordered by short
\* name when present, else long name.
C7_RegistrySorted == IsSortedByKey(cmds)

UniquePairs(l) == \A i, j \in DOMAIN l : i # j => ~SamePair(l[i], l[j])

\* C8: no two registry entries have the same (shortName, longName) pair.
C8_UniquePairs == UniquePairs(cmds)

\* C8 as amended: the built-ins have pairwise distinct pairs and append keeps
\* every entry, so the registry holds one entry per built-in and per append
\* call and its pairs are unique exactly when those of the built-ins and of
\* the appended commands are pairwise distinct.
C8_AppendKeepsAll ==
    /\ UniquePairs(Builtins)
    /\ Len(cmds) = NumBuiltins + Len(appended)
    /\ UniquePairs(cmds) <=> UniquePairs(Builtins \o appended)

\* The pair ("r", "run") of a built-in has been appended again.
C8_Witness ==
    /\ Len(appended) >= 1
    /\ \E i, j \in DOMAIN cmds :
          i # j /\ SamePair(cmds[i], cmds[j]) /\ ~cmds[i].isPlugin /\ cmds[j].isPlugin

(***************************************************************************)
(* The external dependency fetcher: grabExtern and installCmd.             *)
(***************************************************************************)
RECURSIVE SeqsUpTo(_)
\* The extern maps of at most n entries: a dict holds each key once, and
\* iterates in declared order.
SeqsUpTo(n) ==
    IF n = 0 THEN {<<>>}
    ELSE LET shorter == SeqsUpTo(n - 1) IN
         shorter \cup
         {Append(s, k) : s \in {t \in shorter : Len(t) = n - 1},
                         k \in Keys}

ExternMaps == {s \in SeqsUpTo(MaxDeps) : \A i, j \in DOMAIN s : i # j => s[i] # s[j]}

\* What a directory's clone carries: no project.json, or one with an extern map.
NoManifest == [state |-> "none", extern |-> <<>>]
Unknown == [state |-> "unknown", extern |-> <<>>]
Manifest(m) == [state |-> "json", extern |-> m]
Manifests == {NoManifest} \cup {Manifest(m) : m \in ExternMaps}

ExistsNever(d, k) == FALSE

\* os.path.exists(extPath)
Exists(d, k) == d[k] # "absent"

\* The directories present under EXTERN_DIR.
Existing(d) == {k \in Keys : d[k] # "absent"}

\* os.path.exists(os.path.join(extPath, "project.json"))
HasProjectJson(p, k) == p[k].state = "json"

Frame(owner, entries) == [owner |-> owner, rest |-> entries]

Top(st) == st[Len(st)]

\* The for loop takes the next item of extern.items().
Advance(st) == [st EXCEPT ![Len(st)].rest = Tail(@)]

RECURSIVE Normalize(_)
\* A for loop whose items are exhausted ends and grabExtern returns to its
\* caller, which goes on with its own loop.
Normalize(st) ==
    IF st = <<>> THEN <<>>
    ELSE IF Top(st).rest = <<>> THEN Normalize(SubSeq(st, 1, Len(st) - 1))
    ELSE st

PushFrameDeferred(st, f) == <<f>> \o st

PushFrameDropped(st, f) == st

\* The recursive call grabExtern(context.loadProject(extPath).extern).
PushFrame(st, f) == Append(st, f)

UnwindOneFrame(st) == Normalize(Advance(st))

\* grabExtern and installCmd have no try/except: an exception raised by
\* shell.popen leaves every active call.
Unwind(st) == <<>>

\* shell.popen raises when the process it runs fails.
PopenRaises(exitOk) == ~exitOk

MakeDirSkipped(d, k) == d

\* A successful git clone creates extPath.
MakeDir(d, k) == [d EXCEPT ![k] = "cloned"]

Line(kind, k) == [kind |-> kind, spec |-> k]

Clone(k, owner, ok) == [spec |-> k, parent |-> owner, ok |-> ok]

NoPrev == [ran |-> FALSE, start |-> {}, clean |-> FALSE]

FetchIdle ==
    /\ stack = <<>>
    /\ passNo = 0
    /\ raised = FALSE
    /\ out = <<>>
    /\ clones = <<>>
    /\ loaded = {}
    /\ diskAtStart = {}
    /\ prev = NoPrev

\* Any project manifest and any set of directories already present.  What a
\* directory holds is known once a clone has put it there; the fetcher never
\* looks into a directory it did not clone.
InitFetch ==
    /\ InitRegistry
    /\ extern \in ExternMaps
    /\ \E present \in SUBSET Keys :
          disk = [k \in Keys |-> IF k \in present THEN "present" ELSE "absent"]
    /\ project = [k \in Keys |-> Unknown]
    /\ FetchIdle

InitReg ==
    /\ InitRegistry
    /\ extern = <<>>
    /\ disk = [k \in Keys |-> "absent"]
    /\ project = [k \in Keys |-> Unknown]
    /\ FetchIdle

Running == stack # <<>>

Done == passNo > 0 /\ stack = <<>> /\ ~raised

Failed == passNo > 0 /\ stack = <<>> /\ raised

\* installCmd: load the project in "." and call grabExtern(pj.extern).
InstallCmd ==
    /\ ~Running
    /\ passNo < MaxPasses
    /\ passNo' = passNo + 1
    /\ stack' = Normalize(<<Frame(ROOT, extern)>>)
    /\ raised' = FALSE
    /\ out' = <<>>
    /\ clones' = <<>>
    /\ loaded' = {}
    /\ diskAtStart' = Existing(disk)
    /\ prev' = IF passNo = 0 THEN NoPrev
               ELSE [ran |-> TRUE, start |-> diskAtStart, clean |-> ~raised]
    /\ UNCHANGED <<extern, project, disk>>
    /\ UNCHANGED regVars

\* One iteration of the loop, target directory present: print and continue.
Skip ==
    /\ Running
    /\ Len(stack) <= MaxDepth
    /\ LET k == Head(Top(stack).rest) IN
        /\ Exists(disk, k)
        /\ out' = Append(out, Line("Skipping", k))
        /\ stack' = Normalize(Advance(stack))
    /\ UNCHANGED <<extern, project, disk, passNo, raised, clones, loaded, diskAtStart, prev>>
    /\ UNCHANGED regVars

\* One iteration of the loop, target directory absent, git clone succeeds:
\* the directory is created with whatever the remote carries; if that
\* includes a project.json it is loaded and grabExtern recurses into it.
CloneOk ==
    /\ Running
    /\ Len(stack) <= MaxDepth
    /\ LET k == Head(Top(stack).rest)
           owner == Top(stack).owner
       IN
        /\ ~Exists(disk, k)
        /\ ~PopenRaises(TRUE)
        /\ out' = Append(out, Line("Installing", k))
        /\ clones' = Append(clones, Clone(k, owner, TRUE))
        /\ disk' = MakeDir(disk, k)
        /\ \E m \in Manifests :
              /\ project[k] # Unknown => m = project[k]
              /\ project' = [project EXCEPT ![k] = m]
        /\ IF HasProjectJson(project', k)
           THEN /\ loaded' = loaded \cup {k}
                /\ stack' = Normalize(PushFrame(Advance(stack),
                                                Frame(k, project'[k].extern)))
           ELSE /\ loaded' = loaded
                /\ stack' = Normalize(Advance(stack))
    /\ UNCHANGED <<extern, passNo, raised, diskAtStart, prev>>
    /\ UNCHANGED regVars

\* One iteration of the loop, target directory absent, git clone fails:
\* shell.popen raises.  The failed clone may leave a partial directory.
CloneFail ==
    /\ Running
    /\ Len(stack) <= MaxDepth
    /\ LET k == Head(Top(stack).rest)
           owner == Top(stack).owner
       IN
        /\ ~Exists(disk, k)
        /\ PopenRaises(FALSE)
        /\ out' = Append(out, Line("Installing", k))
        /\ clones' = Append(clones, Clone(k, owner, FALSE))
        /\ \E left \in {"absent", "partial"} : disk' = [disk EXCEPT ![k] = left]
        /\ raised' = TRUE
        /\ stack' = Unwind(stack)
    /\ UNCHANGED <<extern, project, passNo, loaded, diskAtStart, prev>>
    /\ UNCHANGED regVars

Step == Skip \/ CloneOk \/ CloneFail

NextFetch == InstallCmd \/ Skip \/ CloneOk \/ CloneFail

SpecFetch == InitFetch /\ [][NextFetch]_vars

\* A single run of the install command, which executes to its end: a started
\* grabExtern iteration completes.
InstallCmdOnce == passNo = 0 /\ InstallCmd

NextPass == InstallCmdOnce \/ Skip \/ CloneOk \/ CloneFail

SpecPassFair == InitFetch /\ [][NextPass]_vars /\ WF_vars(Step)

SpecReg == InitReg /\ [][NextReg]_vars

(***************************************************************************)
(* Properties of the fetcher.                                              *)
(***************************************************************************)
Range(q) == {q[i] : i \in DOMAIN q}

Pos(q, x) == CHOOSE i \in DOMAIN q : q[i] = x

\* The extern map a clone was taken from.
DeclaredBy(owner) == IF owner = ROOT THEN extern ELSE project[owner].extern

CloneIdx(k) == CHOOSE i \in DOMAIN clones : clones[i].spec = k

RECURSIVE Descends(_, _)
\* Clone j was discovered, directly or transitively, through the manifest
\* of clone i.
Descends(j, i) ==
    LET p == clones[j].parent IN
    /\ p # ROOT
    /\ \E a \in 1..(j - 1) : clones[a].spec = p
    /\ \/ p = clones[i].spec
       \/ Descends(CloneIdx(p), i)

\* C2: the clones of a pass are in depth-first pre-order: a nested clone
\* comes after a successful clone of the dependency that declared it,
\* clones taken from one manifest follow its declared order, and everything
\* discovered through a clone comes right after it, before its next sibling.
C2_PreOrder ==
    /\ \A j \in DOMAIN clones :
          clones[j].parent # ROOT =>
             \E a \in 1..(j - 1) : clones[a].spec = clones[j].parent /\ clones[a].ok
    /\ \A j \in DOMAIN clones : clones[j].spec \in Range(DeclaredBy(clones[j].parent))
    /\ \A i, j \in DOMAIN clones :
          (i < j /\ clones[i].parent = clones[j].parent) =>
             Pos(DeclaredBy(clones[i].parent), clones[i].spec)
               < Pos(DeclaredBy(clones[j].parent), clones[j].spec)
    /\ \A i, m, j \in DOMAIN clones :
          (i < m /\ m < j /\ Descends(j, i)) => Descends(m, i)

\* Declared [A, B], A's manifest declares C, nothing installed: A, C, B.
C2_Witness ==
    /\ Done
    /\ diskAtStart = {}
    /\ extern = <<"A", "B">>
    /\ project["A"].extern = <<"C">>
    /\ [i \in DOMAIN clones |-> clones[i].spec] = <<"A", "C", "B">>

\* C3: a failed clone is the last clone of its pass: nothing is pending
\* after it, the exception has left installCmd, and every directory that
\* existed or was created before the failure is still there.
C3_AbortOnFailure ==
    \A i \in DOMAIN clones :
        ~clones[i].ok =>
            /\ i = Len(clones)
            /\ stack = <<>>
            /\ raised
            /\ out[Len(out)] = Line("Installing", clones[i].spec)
            /\ \A j \in 1..(i - 1) : clones[j].ok /\ disk[clones[j].spec] = "cloned"
            /\ diskAtStart \subseteq Existing(disk)

\* Three declared dependencies, the second fails: the first is installed,
\* the third was never attempted.
C3_Witness ==
    /\ Failed
    /\ Len(extern) = 3
    /\ Len(clones) = 2
    /\ clones[1] = Clone(extern[1], ROOT, TRUE)
    /\ clones[2] = Clone(extern[2], ROOT, FALSE)
    /\ disk[extern[1]] = "cloned"
    /\ disk[extern[3]] = "absent"

\* C4: a pass from an empty root that ends without failure has created the
\* directory of every declared key and of every key it cloned, and nothing
\* else; the pass after it clones nothing, changes nothing on disk and, once
\* finished, has printed exactly one "Skipping" line per declared key.
C4_Idempotent ==
    /\ (Done /\ diskAtStart = {}) =>
          /\ Range(extern) \subseteq Existing(disk)
          /\ Existing(disk) = {clones[i].spec : i \in DOMAIN clones}
          /\ \A k \in Existing(disk) : disk[k] = "cloned"
    /\ (passNo > 0 /\ prev.ran /\ prev.clean /\ prev.start = {}) =>
          /\ clones = <<>>
          /\ loaded = {}
          /\ ~raised
          /\ Existing(disk) = diskAtStart
          /\ \A k \in Keys : disk[k] \in {"absent", "cloned"}
          /\ Done => out = [i \in DOMAIN extern |-> Line("Skipping", extern[i])]

\* A pass from an empty root installed the declared keys and a nested one;
\* the next pass skipped every declared key.
C4_Witness ==
    /\ Done
    /\ prev.ran /\ prev.clean /\ prev.start = {}
    /\ Len(extern) >= 2
    /\ Cardinality(Existing(disk)) > Len(extern)
    /\ Len(out) = Len(extern)

RECURSIVE ReachFrom(_, _)
\* The keys reachable from S through the manifests of the keys in via.
ReachFrom(S, via) ==
    LET next == S \cup UNION {Range(project[k].extern) : k \in S \cap via}
    IN  IF next = S THEN S ELSE ReachFrom(next, via)

\* C5: after a pass that finishes without failure, every dependency
\* reachable from the project's extern map through the manifests of the
\* dependencies' directories has its directory on disk.
C5_AllReachableInstalled ==
    Done => ReachFrom(Range(extern), Existing(disk)) \subseteq Existing(disk)

\* C5 as amended: after a pass that finishes without failure, every declared
\* dependency and every dependency reachable from them through the manifests
\* of directories the pass itself cloned has its directory on disk; the
\* manifest of a directory that existed before the pass is not followed.
C5_FreshReachableInstalled ==
    Done => ReachFrom(Range(extern), Keys \ diskAtStart) \subseteq Existing(disk)

\* A pass that started with some directory present cloned a nested dependency.
C5_Witness ==
    /\ Done
    /\ diskAtStart # {}
    /\ \E i \in DOMAIN clones : clones[i].parent # ROOT
    /\ ReachFrom(Range(extern), Keys \ diskAtStart) # Range(extern)

NoKeyClonedTwice ==
    \A i, j \in DOMAIN clones : i # j => clones[i].spec # clones[j].spec

\* C9: a started pass ends, cyclic dependency data included: no key is
\* cloned twice in a pass and the recursion is never deeper than the number
\* of keys plus one.
C9_Terminates ==
    /\ Running ~> ~Running
    /\ [](NoKeyClonedTwice /\ Len(stack) <= Cardinality(Keys) + 1)

\* A's manifest declares B, B's declares A, and the pass got through both.
C9_Witness ==
    /\ Done
    /\ \E a, b \in Keys :
          /\ a # b
          /\ b \in Range(project[a].extern)
          /\ a \in Range(project[b].extern)
          /\ \E i, j \in DOMAIN clones :
                i < j /\ clones[i].spec = a /\ clones[j].spec = b
                      /\ clones[j].parent = a

\* C10: in every step of a pass no present directory disappears or changes,
\* a clone targets a directory that is absent at that moment, only freshly
\* cloned directories have their manifest loaded, and an iteration that
\* prints "Skipping" neither clones, loads nor recurses.
C10_AppendOnly ==
    [][ /\ \A k \in Keys :
              disk[k] # "absent" => disk'[k] = disk[k] /\ project'[k] = project[k]
        /\ passNo' = passNo =>
              /\ clones' # clones =>
                    /\ Len(clones') = Len(clones) + 1
                    /\ SubSeq(clones', 1, Len(clones)) = clones
                    /\ disk[clones'[Len(clones')].spec] = "absent"
              /\ \A k \in loaded' \ loaded :
                    disk[k] = "absent" /\ clones'[Len(clones')] = Clone(k, Top(stack).owner, TRUE)
              /\ (Len(out') = Len(out) + 1 /\ out'[Len(out')].kind = "Skipping") =>
                    /\ disk[out'[Len(out')].spec] # "absent"
                    /\ clones' = clones
                    /\ loaded' = loaded
                    /\ disk' = disk
                    /\ Len(stack') <= Len(stack)
      ]_vars

\* A present directory whose manifest declares a missing dependency was
\* skipped, and the pass finished without installing that dependency.
C10_Witness ==
    /\ Done
    /\ \E i \in DOMAIN out :
          /\ out[i].kind = "Skipping"
          /\ \E d \in Range(project[out[i].spec].extern) : disk[d] = "absent"

=============================================================================
